---- MODULE Spec2Model ----
(***************************************************************************)
(* Model of FlappyBirdEnv (src/flappy_bird_env/flappy_bird_env.py): the    *)
(* step / reset / render state machine with its reward and termination     *)
(* evaluator.                                                              *)
(*                                                                         *)
(* The entity classes Bird, Pipe and Base are imported by the environment  *)
(* but their modules are not part of the source tree at hand.  They are    *)
(* modelled from the specification's description of their kinematics.     *)
(* The specification fixes the shape of the update rules but no numbers,   *)
(* so the entity parameters below are model parameters: they are chosen    *)
(* on a coarse grid (one model tick moves a pipe 96 pixels) that keeps     *)
(* the order of events of the game: a bird that never jumps reaches the    *)
(* ground before the first pipe reaches it, a pipe leaves the screen       *)
(* before its successor reaches the bird.                                  *)
(*                                                                         *)
(* Python None is the record None; a field that may hold None holds        *)
(* either None or a record.  _pipes is None exactly when _bird is None     *)
(* (both are assigned together, lines 41-44 and 303-306), so the model     *)
(* keeps pipes a sequence and reads "not yet reset" from bird.             *)
(***************************************************************************)
EXTENDS Integers, Sequences, FiniteSets, TLC

VARIABLES
    env,        \* the environment object: the fields of FlappyBirdEnv
    ret,        \* what the last call on env returned or raised
    twin,       \* a second, independently constructed environment
    twin_ret,   \* what the last call on twin returned or raised
    steps,      \* number of step calls made so far
    resets,     \* number of reset calls made so far
    renders,    \* number of render calls made by the caller so far
    created     \* number of Pipe objects constructed since the last reset

vars == <<env, ret, twin, twin_ret, steps, resets, renders, created>>

----------------------------------------------------------------------------
(* Bounds of the exploration *)

MaxSteps == 12
MaxResets == 2
MaxRenders == 1
MaxRenderSteps == 5

(* Constants of flappy_bird_env.py *)

SpawnX == 700
BirdStartX == 222
BirdStartY == 376
BaseStartY == 700
GroundY == 730
GapOffset == 150
RewardScale == 410

(* Parameters of the entity classes *)

PipeVel == 96
PipeWidth == 104
PipeImageHeight == 640
PipeGap == 200
BirdWidth == 68
BirdHeight == 48
JumpVel == -160
HalfGravity == 80
MaxDisplacement == 80
BaseVel == 96
BaseWidth == 672

None == [none |-> TRUE]

RenderModes == {"None", "human", "rgb_array"}
Seeds == {0, 1}
NoSeed == -1
ValidActions == {0, 1}
InvalidAction == 2
Actions == ValidActions \cup {InvalidAction}

----------------------------------------------------------------------------
(* The random source np_random.  A generator is the pair of the seed it    *)
(* was created from and the number of draws made from it; the value of a   *)
(* draw is a fixed function of the two, so equal seeds give equal streams. *)

HeightTable == <<250, 100, 400>>

seeding_np_random(seed) == [seed |-> seed, n |-> 0]

integers(rng) == HeightTable[((rng.seed + rng.n) % Len(HeightTable)) + 1]

advance(rng) == [rng EXCEPT !.n = @ + 1]

----------------------------------------------------------------------------
(* Bird *)

Bird(x, y) == [x |-> x, y |-> y, vel |-> 0, tick_count |-> 0]

jump(bird) == [bird EXCEPT !.vel = JumpVel, !.tick_count = 0]

displacement(vel, t) ==
    LET d == vel * t + HalfGravity * t * t
    IN IF d >= MaxDisplacement THEN MaxDisplacement ELSE d

move(bird) ==
    LET t == bird.tick_count + 1
    IN [bird EXCEPT !.tick_count = t, !.y = @ + displacement(bird.vel, t)]

(* Pipe *)

Pipe(x, rng) ==
    LET height == integers(rng)
    IN [x |-> x, height |-> height, top |-> height - PipeImageHeight,
        bottom |-> height + PipeGap, passed |-> FALSE]

pipe_move(pipe) == [pipe EXCEPT !.x = @ - PipeVel]

\* two axis-aligned rectangles (left, top, width, height) overlap
Overlap(l1, t1, w1, h1, l2, t2, w2, h2) ==
    /\ l1 < l2 + w2
    /\ l2 < l1 + w1
    /\ t1 < t2 + h2
    /\ t2 < t1 + h1

collide(pipe, bird) ==
    \/ Overlap(bird.x, bird.y, BirdWidth, BirdHeight,
               pipe.x, pipe.top, PipeWidth, PipeImageHeight)
    \/ Overlap(bird.x, bird.y, BirdWidth, BirdHeight,
               pipe.x, pipe.bottom, PipeWidth, PipeImageHeight)

(* Base *)

Base(y) == [x1 |-> 0, x2 |-> BaseWidth, y |-> y]

base_move(base) ==
    LET a1 == base.x1 - BaseVel
        a2 == base.x2 - BaseVel
        b1 == IF a1 + BaseWidth < 0 THEN a2 + BaseWidth ELSE a1
        b2 == IF a2 + BaseWidth < 0 THEN b1 + BaseWidth ELSE a2
    IN [base EXCEPT !.x1 = b1, !.x2 = b2]

----------------------------------------------------------------------------
(* FlappyBirdEnv: construction and the read-only properties *)

\* observation_space.shape = (800, 576, 3); _shape = (_width, _height)
ObservationShape == <<800, 576, 3>>
surface_width == ObservationShape[2]
surface_height == ObservationShape[1]
surface_shape == <<surface_width, surface_height>>

Inf == -1

Construct(render_mode) ==
    [render_mode |-> render_mode,
     background |-> None,
     pipes |-> <<>>,
     base |-> None,
     bird |-> None,
     old_distance |-> Inf,
     surface |-> None,
     last_action |-> 0,
     score |-> 0,
     np_random |-> None]

\* the pixels of a surface that was created and never drawn on
Blank == [blank |-> TRUE]

NewSurface(kind) == [kind |-> kind, shape |-> surface_shape, pixels |-> Blank]

\* what the draw calls of render put on the surface
Frame(e) ==
    [pipes |-> [i \in DOMAIN e.pipes |->
                   [x |-> e.pipes[i].x, height |-> e.pipes[i].height]],
     base |-> <<e.base.x1, e.base.x2>>,
     bird |-> <<e.bird.x, e.bird.y>>]

\* pixels3d of the surface with the first two axes exchanged
observation(e) ==
    [shape |-> <<e.surface.shape[2], e.surface.shape[1], 3>>,
     pixels |-> e.surface.pixels]

\* A reward is a real number r <= 1.  The model stores r as the integer
\* (410 * (1 - r))^2, which is one-to-one on r <= 1: the closeness signal
\* (410 - d) / 410 is stored as d^2, and a distance d is stored as d^2.
RewardOf(r) == (RewardScale * (1 - r)) * (RewardScale * (1 - r))

is_pipe_passed(e) ==
    \E i \in DOMAIN e.pipes : ~e.pipes[i].passed /\ e.pipes[i].x < e.bird.x

gap_center_y(pipe) == (pipe.bottom + pipe.height) \div 2

calculate_distance(e) ==
    LET pipe == e.pipes[1]
        dy == e.bird.y - gap_center_y(pipe)
        dx == e.bird.x - pipe.x + GapOffset
    IN dy * dy + dx * dx

\* (410 - euclidean_distance) / 410, stored as euclidean_distance^2
calculate_distance_reward(e) == calculate_distance(e)

\* terminated without the test for the top of the screen
terminated_without_ceiling(e) ==
    \/ \E i \in DOMAIN e.pipes : collide(e.pipes[i], e.bird)
    \/ e.bird.y + BirdHeight >= GroundY

terminated(e) ==
    \/ \E i \in DOMAIN e.pipes : collide(e.pipes[i], e.bird)
    \/ e.bird.y + BirdHeight >= GroundY
    \/ e.bird.y < 0

\* new_distance <= self._old_distance, with np.inf above every distance
distance_le(new_distance, old_distance) ==
    old_distance = Inf \/ new_distance <= old_distance

\* reward with the terminated branch tested before the pass branch
reward_terminated_first(e) ==
    LET new_distance == calculate_distance(e)
    IN IF terminated(e)
       THEN [value |-> RewardOf(-1), env |-> [e EXCEPT !.old_distance = Inf]]
       ELSE IF is_pipe_passed(e)
       THEN [value |-> RewardOf(1), env |-> e]
       ELSE IF distance_le(new_distance, e.old_distance)
       THEN [value |-> calculate_distance_reward(e),
             env |-> [e EXCEPT !.old_distance = new_distance]]
       ELSE [value |-> RewardOf(0), env |-> e]

\* reward without the penalty of the terminated branch
reward_without_penalty(e) ==
    LET new_distance == calculate_distance(e)
    IN IF is_pipe_passed(e)
       THEN [value |-> RewardOf(1), env |-> e]
       ELSE IF distance_le(new_distance, e.old_distance)
       THEN [value |-> calculate_distance_reward(e),
             env |-> [e EXCEPT !.old_distance = new_distance]]
       ELSE [value |-> RewardOf(0), env |-> e]

\* reward storing the new distance also when the bird has moved away
reward_stores_when_farther(e) ==
    LET new_distance == calculate_distance(e)
    IN IF is_pipe_passed(e)
       THEN [value |-> RewardOf(1), env |-> e]
       ELSE IF terminated(e)
       THEN [value |-> RewardOf(-1), env |-> [e EXCEPT !.old_distance = Inf]]
       ELSE IF distance_le(new_distance, e.old_distance)
       THEN [value |-> calculate_distance_reward(e),
             env |-> [e EXCEPT !.old_distance = new_distance]]
       ELSE [value |-> RewardOf(0),
             env |-> [e EXCEPT !.old_distance = new_distance]]

\* the reward property: the value it returns and the environment it leaves
reward(e) ==
    LET new_distance == calculate_distance(e)
    IN IF is_pipe_passed(e)
       THEN [value |-> RewardOf(1), env |-> e]
       ELSE IF terminated(e)
       THEN [value |-> RewardOf(-1), env |-> [e EXCEPT !.old_distance = Inf]]
       ELSE IF distance_le(new_distance, e.old_distance)
       THEN [value |-> calculate_distance_reward(e),
             env |-> [e EXCEPT !.old_distance = new_distance]]
       ELSE [value |-> RewardOf(0), env |-> e]

truncated(e) == FALSE

info(e) ==
    [background |-> [upper_left |-> <<0, 0>>],
     pipes |-> [i \in DOMAIN e.pipes |->
                   [x |-> e.pipes[i].x, height |-> e.pipes[i].height,
                    top |-> e.pipes[i].top, bottom |-> e.pipes[i].bottom]],
     base |-> [x1 |-> e.base.x1, x2 |-> e.base.x2, y |-> e.base.y],
     bird |-> [x |-> e.bird.x, y |-> e.bird.y],
     last_action |-> e.last_action,
     score |-> e.score]

Raise(e, error) == [env |-> e, ret |-> [kind |-> "error", error |-> error]]

----------------------------------------------------------------------------
(* render *)

render(e) ==
    LET created_surface ==
            IF e.surface # None THEN e.surface
            ELSE IF e.render_mode = "human" THEN NewSurface("display")
            ELSE IF e.render_mode = "rgb_array" THEN NewSurface("Surface")
            ELSE None
        e1 == [e EXCEPT !.surface = created_surface]
        e2 == [e1 EXCEPT !.surface.pixels = Frame(e1)]
    IN IF e.surface = None /\ e.render_mode = "rgb_array"
       THEN [env |-> e1,
             ret |-> [kind |-> "render", value |-> observation(e1)]]
       ELSE IF e1.surface = None
       THEN Raise(e1, "AssertionError")
       ELSE IF e1.background = None
       THEN Raise(e1, "AttributeError")
       ELSE IF e.render_mode = "rgb_array"
       THEN [env |-> e2,
             ret |-> [kind |-> "render", value |-> observation(e2)]]
       ELSE [env |-> e2, ret |-> [kind |-> "render", value |-> None]]

----------------------------------------------------------------------------
(* step *)

\* a loop that never puts a pipe on to_be_removed
to_be_removed_never(pipes) == {}

\* the removal test with the comparison turned round
to_be_removed_on_screen(pipes) ==
    {i \in DOMAIN pipes : pipes[i].x + PipeWidth > 0}

\* the removal test on the left edge of the pipe, its width forgotten
to_be_removed_left_edge(pipes) ==
    {i \in DOMAIN pipes : pipes[i].x < 0}

\* the pipes the loop of step puts on to_be_removed, by position
to_be_removed(pipes) ==
    {i \in DOMAIN pipes : pipes[i].x + PipeWidth < 0}

\* the scoring test without the passed flag
scores_without_flag(pipe, bird) == pipe.x < bird.x

\* the test of the loop of step that scores a pipe
scores(pipe, bird) == ~pipe.passed /\ pipe.x < bird.x

\* one iteration of the loop of step on one pipe
loop_body(pipe, bird) ==
    pipe_move([pipe EXCEPT !.passed = @ \/ scores(pipe, bird)])

RECURSIVE remove_all(_, _, _)
\* pipes without the ones at the positions in marked; i is the position
\* the head of pipes had in the list the loop ran over
remove_all(pipes, marked, i) ==
    IF pipes = <<>> THEN <<>>
    ELSE IF i \in marked THEN remove_all(Tail(pipes), marked, i + 1)
    ELSE <<Head(pipes)>> \o remove_all(Tail(pipes), marked, i + 1)

\* the tuple step returns: observation, reward, terminated, truncated, info
step_return(e) ==
    IF e.surface = None THEN Raise(e, "TypeError")
    ELSE IF e.pipes = <<>> THEN Raise(e, "IndexError")
    ELSE LET r == reward(e)
         IN [env |-> r.env,
             ret |-> [kind |-> "step",
                      observation |-> observation(e),
                      reward |-> r.value,
                      terminated |-> terminated(r.env),
                      truncated |-> truncated(r.env),
                      info |-> info(r.env)]]

step(e, action) ==
    IF e.bird = None THEN Raise(e, "AttributeError")
    ELSE
    LET bird == move(IF action = 1 THEN jump(e.bird) ELSE e.bird)
        marked == to_be_removed(e.pipes)
        passed_now == {i \in DOMAIN e.pipes : scores(e.pipes[i], bird)}
        add_pipe == passed_now # {}
        moved == [i \in DOMAIN e.pipes |-> loop_body(e.pipes[i], bird)]
        appended == IF add_pipe
                    THEN Append(moved, Pipe(SpawnX, e.np_random))
                    ELSE moved
        e1 == [e EXCEPT !.bird = bird,
                        !.score = @ + Cardinality(passed_now),
                        !.pipes = remove_all(appended, marked, 1),
                        !.np_random = IF add_pipe THEN advance(@) ELSE @,
                        !.base = base_move(@)]
        drawn == IF e.render_mode = "human" THEN render(e1)
                 ELSE [env |-> e1, ret |-> None]
    IN IF drawn.ret # None /\ drawn.ret.kind = "error" THEN drawn
       ELSE step_return(drawn.env)

----------------------------------------------------------------------------
(* reset *)

\* a reset that does not hand the seed on
reset_np_random_unseeded(e, seed, entropy) ==
    IF e.np_random = None THEN seeding_np_random(entropy)
    ELSE e.np_random

\* super().reset(seed=seed) and the np_random property: a seed makes a new
\* generator, no seed keeps the generator there is, and the first use of
\* an environment that has none makes one from entropy
reset_np_random(e, seed, entropy) ==
    IF seed # NoSeed THEN seeding_np_random(seed)
    ELSE IF e.np_random = None THEN seeding_np_random(entropy)
    ELSE e.np_random

reset_return(e) ==
    IF e.surface = None THEN Raise(e, "TypeError")
    ELSE [env |-> e,
          ret |-> [kind |-> "reset",
                   observation |-> observation(e),
                   info |-> info(e)]]

\* a reset that does not clear the score
reset_keeps_score(e, seed, entropy) ==
    LET rng == reset_np_random(e, seed, entropy)
        e1 == [e EXCEPT !.np_random = advance(rng),
                        !.background = [upper_left |-> <<0, 0>>],
                        !.pipes = <<Pipe(SpawnX, rng)>>,
                        !.base = Base(BaseStartY),
                        !.bird = Bird(BirdStartX, BirdStartY),
                        !.surface = None,
                        !.last_action = 0]
        drawn == IF e.render_mode # "None" THEN render(e1)
                 ELSE [env |-> e1, ret |-> None]
    IN IF drawn.ret # None /\ drawn.ret.kind = "error" THEN drawn
       ELSE reset_return(drawn.env)

reset(e, seed, entropy) ==
    LET rng == reset_np_random(e, seed, entropy)
        e1 == [e EXCEPT !.np_random = advance(rng),
                        !.background = [upper_left |-> <<0, 0>>],
                        !.pipes = <<Pipe(SpawnX, rng)>>,
                        !.base = Base(BaseStartY),
                        !.bird = Bird(BirdStartX, BirdStartY),
                        !.surface = None,
                        !.last_action = 0,
                        !.score = 0]
        drawn == IF e.render_mode # "None" THEN render(e1)
                 ELSE [env |-> e1, ret |-> None]
    IN IF drawn.ret # None /\ drawn.ret.kind = "error" THEN drawn
       ELSE reset_return(drawn.env)

----------------------------------------------------------------------------
(* The state machine: a caller that constructs an environment and then     *)
(* calls reset, step and render in any order.                              *)

NoReturn == [kind |-> "none"]

Init ==
    /\ \E render_mode \in RenderModes :
          /\ env = Construct(render_mode)
          /\ twin = Construct(render_mode)
    /\ ret = NoReturn
    /\ twin_ret = NoReturn
    /\ steps = 0
    /\ resets = 0
    /\ renders = 0
    /\ created = 0

\* the Pipe objects a call constructed: one draw of np_random each
Draws(before, after) ==
    IF after.np_random = None THEN 0
    ELSE IF before.np_random = None \/ before.np_random.seed # after.np_random.seed
    THEN after.np_random.n
    ELSE after.np_random.n - before.np_random.n

\* a call of step, allowed while fewer than bound calls were made
StepWithin(action, bound) ==
    /\ steps < bound
    /\ LET r == step(env, action)
       IN /\ env' = r.env
          /\ ret' = r.ret
          /\ created' = created + Draws(env, r.env)
    /\ steps' = steps + 1
    /\ UNCHANGED <<twin, twin_ret, resets, renders>>

Step(action) == StepWithin(action, MaxSteps)

Reset(seed) ==
    /\ resets < MaxResets
    /\ \E entropy \in Seeds :
          LET r == reset(env, seed, entropy)
          IN /\ env' = r.env
             /\ ret' = r.ret
    /\ created' = 1
    /\ resets' = resets + 1
    /\ UNCHANGED <<twin, twin_ret, steps, renders>>

Render ==
    /\ renders < MaxRenders
    /\ LET r == render(env)
       IN /\ env' = r.env
          /\ ret' = r.ret
    /\ renders' = renders + 1
    /\ UNCHANGED <<twin, twin_ret, steps, resets, created>>

Next ==
    \/ \E action \in Actions : Step(action)
    \/ \E seed \in Seeds \cup {NoSeed} : Reset(seed)

Spec == Init /\ [][Next]_vars

\* The same caller, who also calls render himself; a shorter run.
RenderStep(action) == StepWithin(action, MaxRenderSteps)

NextRender ==
    \/ \E action \in Actions : RenderStep(action)
    \/ \E seed \in Seeds \cup {NoSeed} : Reset(seed)
    \/ Render

SpecRender == Init /\ [][NextRender]_vars

\* Two environments constructed alike, each reset with the same seed and
\* given the same actions; the entropy each one has at hand is its own.
TwinReset(seed) ==
    /\ resets < MaxResets
    /\ \E entropy \in Seeds, twin_entropy \in Seeds :
          LET r == reset(env, seed, entropy)
              t == reset(twin, seed, twin_entropy)
          IN /\ env' = r.env
             /\ ret' = r.ret
             /\ twin' = t.env
             /\ twin_ret' = t.ret
    /\ created' = 1
    /\ resets' = resets + 1
    /\ UNCHANGED <<steps, renders>>

TwinStep(action) ==
    /\ steps < MaxSteps
    /\ LET r == step(env, action)
           t == step(twin, action)
       IN /\ env' = r.env
          /\ ret' = r.ret
          /\ twin' = t.env
          /\ twin_ret' = t.ret
          /\ created' = created + Draws(env, r.env)
    /\ steps' = steps + 1
    /\ UNCHANGED <<resets, renders>>

NextTwin ==
    \/ \E action \in Actions : TwinStep(action)
    \/ \E seed \in Seeds : TwinReset(seed)

SpecTwin == Init /\ [][NextTwin]_vars

----------------------------------------------------------------------------
(* Properties *)

\* the transition is a call of step, of reset
StepCalled == steps' = steps + 1
ResetCalled == resets' = resets + 1

\* the last call was a step that returned its 5-tuple
StepReturned == ret.kind = "step"

\* the conditions of the claims, written on the bird and the pipes
PipeCollision(e) ==
    \E i \in 1..Len(e.pipes) : collide(e.pipes[i], e.bird)
GroundReached(e) == e.bird.y + BirdHeight >= 730
CeilingLeft(e) == e.bird.y < 0
PassCondition(e) ==
    \E i \in 1..Len(e.pipes) :
        e.pipes[i].passed = FALSE /\ e.pipes[i].x < e.bird.x

\* C1: the terminated flag a step returns is true exactly when, in the
\* state the step leaves, a pipe collides with the bird, or the bird's
\* lower edge is at or below the ground threshold 730, or bird.y < 0.
C1_TerminatedIffCondition ==
    StepReturned =>
        (ret.terminated <=>
            (PipeCollision(env) \/ GroundReached(env) \/ CeilingLeft(env)))

\* C1 witness: a step has returned terminated = true for a bird that left
\* the screen through the top and touches neither a pipe nor the ground.
C1_Witness ==
    /\ StepReturned
    /\ ret.terminated
    /\ CeilingLeft(env)
    /\ ~PipeCollision(env)
    /\ ~GroundReached(env)

\* C2: once a step has returned terminated = true, every later step
\* without a reset in between returns terminated = true as well.
C2_TerminationOneShot ==
    [][(StepReturned /\ ret.terminated /\ StepCalled /\ ret'.kind = "step")
          => ret'.terminated]_vars

\* C3: the reward of a step follows the precedence +1 (pass condition in
\* the state the step leaves), else -1 (terminated), else the closeness
\* signal when the new distance is at most the stored one, else 0; a step
\* with both the pass condition and termination returns +1 and leaves the
\* stored distance as it was.
C3_RewardPrecedence ==
    [][(StepCalled /\ ret'.kind = "step") =>
          LET d == calculate_distance(env')
              term == PipeCollision(env') \/ GroundReached(env')
                          \/ CeilingLeft(env')
          IN /\ ret'.reward =
                   IF PassCondition(env') THEN RewardOf(1)
                   ELSE IF term THEN RewardOf(-1)
                   ELSE IF env.old_distance = Inf \/ d <= env.old_distance
                   THEN d
                   ELSE RewardOf(0)
             /\ (PassCondition(env') /\ term) =>
                   env'.old_distance = env.old_distance]_vars

\* C3 witness: a step returned +1 and terminated = true together while a
\* finite distance is stored.
C3_Witness ==
    /\ StepReturned
    /\ ret.terminated
    /\ PassCondition(env)
    /\ ret.reward = RewardOf(1)
    /\ env.old_distance # Inf

\* C4: a step returns reward +1 exactly when that same step incremented
\* the score.
C4_BonusOnScoringStep ==
    [][(StepCalled /\ ret'.kind = "step") =>
          ((ret'.reward = RewardOf(1)) <=> (env'.score = env.score + 1))]_vars

\* C5: a step leaves the score or raises it by exactly 1; it raises it
\* exactly when a pipe that is not yet passed has its x below the bird's x,
\* there is at most one such pipe, the step marks it passed and appends
\* exactly one new un-passed pipe at x = 700; and the number of pipes
\* created since reset is score + 1.
C5_ScoreCountsPipes ==
    [][(StepCalled /\ env.bird # None) =>
          LET due == {i \in 1..Len(env.pipes) :
                         ~env.pipes[i].passed /\ env.pipes[i].x < env.bird.x}
              last == env'.pipes[Len(env'.pipes)]
          IN /\ Cardinality(due) <= 1
             /\ env'.score = env.score + Cardinality(due)
             /\ created' = created + Cardinality(due)
             /\ due # {} => /\ last.x = 700
                            /\ ~last.passed
                            /\ \A i \in 1..(Len(env'.pipes) - 1) :
                                  env'.pipes[i].passed
             /\ created' = env'.score + 1]_vars

\* C5 witness: the second pipe of an episode has been passed and the third
\* one created.
C5_Witness ==
    /\ env.bird # None
    /\ env.score = 2
    /\ created = 3

\* C6: the pipe sequence never holds more than 2 pipes.
C6_AtMostTwoPipes == Len(env.pipes) <= 2

\* C6 witness: the first pipe has been removed and the third pipe stands
\* next to the second one.
C6_Witness ==
    /\ Len(env.pipes) = 2
    /\ created = 3
    /\ env.pipes[1].passed
    /\ ~env.pipes[2].passed

\* C7: reset, from any state, leaves the initial episode state: exactly
\* one un-passed pipe at x = 700, the bird at (222, 376), score 0, last
\* action 0, and no surface that holds a frame of the state before: the
\* surface is gone, or new and blank, or new and showing the initial state.
C7_ResetRestoresInitialState ==
    [][ResetCalled =>
          /\ Len(env'.pipes) = 1
          /\ env'.pipes[1].x = 700
          /\ env'.pipes[1].passed = FALSE
          /\ env'.bird.x = 222
          /\ env'.bird.y = 376
          /\ env'.score = 0
          /\ env'.last_action = 0
          /\ \/ env'.surface = None
             \/ env'.surface.pixels = Blank
             \/ env'.surface.pixels = Frame(env')]_vars

\* C7 witness: a second reset has just returned in an environment whose
\* earlier episode was played up to a scored pipe and a stored distance.
C7_Witness ==
    /\ resets = 2
    /\ ret.kind = "reset"
    /\ steps >= 6
    /\ env.old_distance # Inf
    /\ env.np_random.n >= 3
    /\ env.score = 0

\* C8: the first step after any reset, when it neither earns the pass
\* bonus nor terminates, returns the closeness signal of its distance.
C8_FirstStepIsCloseness ==
    [][(ret.kind = "reset" /\ StepCalled /\ ret'.kind = "step"
            /\ ~PassCondition(env') /\ ~ret'.terminated)
          => ret'.reward = calculate_distance(env')]_vars

\* C10: the info a step returns reports the action of that step.
C10_InfoReportsAction ==
    [][\A action \in ValidActions :
          (Step(action) /\ ret'.kind = "step")
              => ret'.info.last_action = action]_vars

\* C9: two environments constructed alike, reset with the same seed and
\* given the same actions, return the same reward, terminated flag and
\* info on every call.
C9_SameSeedSameEpisode ==
    /\ ret.kind = twin_ret.kind
    /\ ret.kind = "reset" => ret.info = twin_ret.info
    /\ ret.kind = "step" =>
          /\ ret.reward = twin_ret.reward
          /\ ret.terminated = twin_ret.terminated
          /\ ret.info = twin_ret.info

\* C9 witness: both environments have returned from a step that shows a
\* second pipe, whose gap came from the random source.
C9_Witness ==
    /\ ret.kind = "step"
    /\ twin_ret.kind = "step"
    /\ Len(ret.info.pipes) = 2
    /\ Len(twin_ret.info.pipes) = 2
    /\ resets = 2

\* ---------------------------------------------------------------------
\* An agent that never jumps: every step is step(0), and the caller keeps
\* stepping; steps counts the steps of the episode the last reset began.
NoJumpStep == StepWithin(0, MaxSteps)

NoJumpReset(seed) ==
    /\ resets < MaxResets
    /\ \E entropy \in Seeds :
          LET r == reset(env, seed, entropy)
          IN /\ env' = r.env
             /\ ret' = r.ret
    /\ created' = 1
    /\ resets' = resets + 1
    /\ steps' = 0
    /\ UNCHANGED <<twin, twin_ret, renders>>

NextNoJump ==
    \/ NoJumpStep
    \/ \E seed \in Seeds \cup {NoSeed} : NoJumpReset(seed)

\* the caller takes the next step: NoJumpStep is the only action that adds
\* one to steps, and it is enabled exactly when steps is below its bound
NextStepTaken == steps < MaxSteps /\ steps' = steps + 1

SpecNoJump == Init /\ [][NextNoJump]_vars /\ WF_steps(NextStepTaken)

\* the transition is a call of render by the caller
RenderCalled == renders' = renders + 1

\* C11: in every render mode, once reset has been called, reset and each
\* following step return their tuple and raise no error.
C11_NoErrorAfterReset ==
    resets >= 1 => ret.kind # "error"

\* C12: with render mode None a call of render returns None, raises no
\* error and changes nothing of the environment.
C12_RenderNoneIsNoOp ==
    [][(RenderCalled /\ env.render_mode = "None") =>
          /\ ret'.kind = "render"
          /\ ret'.value = None
          /\ env' = env]_vars

\* C13: a step with an action outside {0, 1} raises an error and leaves
\* the episode state as it was.
C13_InvalidActionRejected ==
    [][(Step(InvalidAction) /\ env.bird # None) =>
          /\ ret'.kind = "error"
          /\ env' = env]_vars

\* C14: in rgb_array mode the observation reset and step hand back is the
\* frame of the entities as they are when the call returns.
C14_ObservationIsCurrentFrame ==
    (env.render_mode = "rgb_array" /\ ret.kind \in {"reset", "step"}) =>
        ret.observation.pixels = Frame(env)

\* C15: after every step the head of the pipe sequence is a pipe the bird
\* has not passed: its passed flag is false.
C15_HeadIsUnpassed ==
    (env.bird # None /\ steps >= 1) => env.pipes[1].passed = FALSE

\* pipe i of the sequence is not in the sequence the step leaves
Removed(i) ==
    ~\E j \in 1..Len(env'.pipes) : env'.pipes[j].x = pipe_move(env.pipes[i]).x

\* C16: a step removes no pipe whose right edge is at or right of 0, and
\* leaves no pipe in the sequence whose right edge is left of 0.
C16_RemovedExactlyWhenOffScreen ==
    [][(StepCalled /\ env.bird # None) =>
          /\ \A i \in 1..Len(env.pipes) :
                Removed(i) => env.pipes[i].x + PipeWidth < 0
          /\ \A j \in 1..Len(env'.pipes) :
                env'.pipes[j].x + PipeWidth >= 0]_vars

\* C16 as the code has it: a step removes exactly the pipes whose right
\* edge was left of 0 when the step began, before the step moved them; a
\* pipe left in the sequence is at most one move past that line.
C16_RemovedWhenOffScreenBeforeMove ==
    [][(StepCalled /\ env.bird # None) =>
          /\ \A i \in 1..Len(env.pipes) :
                Removed(i) <=> env.pipes[i].x + PipeWidth < 0
          /\ \A j \in 1..Len(env'.pipes) :
                env'.pipes[j].x + PipeWidth >= 0 - PipeVel]_vars

\* the first pipe has been removed and its successor is the only pipe left
C16_Witness ==
    /\ ret.kind = "step"
    /\ env.score = 1
    /\ Len(env.pipes) = 1
    /\ env.pipes[1].passed = FALSE
    /\ env.pipes[1].x < SpawnX

\* the step that has returned took the terminated branch of reward
TerminatedBranch(e, r) == ~PassCondition(e) /\ r.terminated

\* C17: the stored previous distance only moves down between two resets
\* to infinity: the +1 branch and the 0 branch leave it alone, the
\* closeness branch stores the new distance, which is no greater than the
\* old one, only the terminated branch stores infinity, and nothing but a
\* step that returns touches it.
C17_DistanceRatchet ==
    [][IF StepCalled /\ ret'.kind = "step"
       THEN /\ PassCondition(env') => env'.old_distance = env.old_distance
            /\ TerminatedBranch(env', ret') => env'.old_distance = Inf
            /\ (~PassCondition(env') /\ ~ret'.terminated) =>
                  IF distance_le(calculate_distance(env'), env.old_distance)
                  THEN /\ env'.old_distance = calculate_distance(env')
                       /\ ret'.reward = env'.old_distance
                  ELSE /\ env'.old_distance = env.old_distance
                       /\ ret'.reward = RewardOf(0)
            /\ ~TerminatedBranch(env', ret') =>
                  distance_le(env'.old_distance, env.old_distance)
       ELSE env'.old_distance = env.old_distance]_vars

\* a step of the 0 branch: the bird is farther from the gap than the
\* stored distance, which the step has left as it was
C17_Witness ==
    /\ ret.kind = "step"
    /\ ret.reward = RewardOf(0)
    /\ ~PassCondition(env)
    /\ ~ret.terminated
    /\ env.old_distance # Inf
    /\ ~distance_le(calculate_distance(env), env.old_distance)

\* C18: when every step after a reset is step(0), each step moves the
\* bird down as long as it has not reached the ground line, a reset that
\* has returned is followed by a step that returns terminated, and the
\* first step that returns terminated returns the reward -1.
C18_FallTerminatesWithPenalty ==
    /\ [][(StepCalled /\ env.bird # None /\ ~GroundReached(env)) =>
             env'.bird.y > env.bird.y]_vars
    /\ [][(StepCalled /\ ret'.kind = "step" /\ ret'.terminated
             /\ ~(ret.kind = "step" /\ ret.terminated)) =>
             ret'.reward = RewardOf(-1)]_vars
    /\ (ret.kind = "reset") ~> (ret.kind = "step" /\ ret.terminated)

\* the falling bird has reached the ground line clear of every pipe and
\* the step has returned terminated with the penalty
C18_Witness ==
    /\ ret.kind = "step"
    /\ ret.terminated
    /\ ret.reward = RewardOf(-1)
    /\ GroundReached(env)
    /\ ~PipeCollision(env)
    /\ env.bird.y > BirdStartY

\* the squared distance from the bird to the point (pipe.x + 150, centre
\* of the gap) of the head pipe
DistanceToGapPoint(e) ==
    LET pipe == e.pipes[1]
        dy == e.bird.y - (pipe.bottom + pipe.height) \div 2
        dx == e.bird.x - (pipe.x + 150)
    IN dy * dy + dx * dx

\* C19: the distance the reward works with is measured from the bird to
\* the point (pipe.x + 150, centre of the gap) of the head pipe: a step of
\* the closeness branch stores that distance and returns the reward of
\* that same distance.
C19_DistanceToOffsetPoint ==
    (/\ ret.kind = "step"
     /\ ~PassCondition(env)
     /\ ~ret.terminated
     /\ ret.reward # RewardOf(0)) =>
        /\ env.old_distance = DistanceToGapPoint(env)
        /\ ret.reward = env.old_distance

\* C20: once reset has run the pipe sequence is never empty, after
\* termination included, and a step removes a pipe only when the pipe's
\* successor is in the sequence the step leaves.
C20_PipesNeverEmpty ==
    /\ [][env'.bird # None => Len(env'.pipes) >= 1]_vars
    /\ [][(StepCalled /\ env.bird # None) =>
             \A i \in 1..Len(env.pipes) :
                Removed(i) =>
                   \E j \in 1..Len(env'.pipes) :
                      env'.pipes[j].x > pipe_move(env.pipes[i]).x]_vars

\* the first pipe has been removed after termination and the sequence
\* still holds its successor
C20_Witness ==
    /\ ret.kind = "step"
    /\ ret.terminated
    /\ env.score >= 1
    /\ Len(env.pipes) = 1
    /\ env.pipes[1].x < SpawnX

====
